---- MODULE Spec2Model ----
(***************************************************************************)
(* Model of Fundamental.py: one Streamlit page that, when the Run button   *)
(* is pressed, sends a base screener query, sleeps, filters the result     *)
(* locally, sends an enrichment query, merges the two tables, derives      *)
(* ROCE / crore columns / the Fundamental Score and renders the result.    *)
(*                                                                         *)
(* Numbers.  A table cell is a record [nan, v]: a float64 holding the      *)
(* whole number v, or NaN (a missing value).  The crore columns are the    *)
(* result of a float64 division and are kept as binary64 values            *)
(* [k, m, e]: k = "num" stands for m * 2^e with m a 53-bit mantissa        *)
(* (most significant bit first).  ROCE and 1/PE are kept as exact          *)
(* fractions: for the small whole numbers used here two different          *)
(* fractions are many ulps apart, so float64 keeps their order and their   *)
(* equality, which is all the ranking reads.                               *)
(*                                                                         *)
(* Every numeric column is taken to be a float64 column (a null of the     *)
(* service is NaN), and amounts are whole and not negative.  The rendering *)
(* (table sorted by score, charts, workbook) reads df and does not change  *)
(* it; the order in which the table is shown is not part of the state.     *)
(***************************************************************************)
EXTENDS Integers, Sequences, FiniteSets, TLC

(***************************************************************************)
(* Bounds of the model                                                     *)
(***************************************************************************)
\* largest number of rows the screening service answers with
MaxRows == 2
\* rupee amounts tried by the crore conversion: 1..MaxRupees and offsets
\* 0..MaxOffset above whole crores
MaxRupees == 60
MaxCrores == 12
MaxOffset == 3

(***************************************************************************)
(* Program constants                                                       *)
(***************************************************************************)
CRORE == 10000000
LimitMin == 20
LimitDefault == 60
MinRoeMin == 0
MinRoeDefault == 10
PeMin == 0
PeMax == 80
PeLowDefault == 5
PeHighDefault == 40
MaxDebtDefault == 50000
WeightROE == 30
WeightROCE == 30
WeightPE == 20
WeightFCF == 20
ScoreDecimals == 1
Percent == 100

\* width of the float64 mantissa
MantBits == 53

(***************************************************************************)
(* float64 arithmetic: x / 1e7 and y * 1e7, round to nearest, ties to even. *)
(* Bit strings are worked on 7 bits at a time so that every intermediate   *)
(* product stays below 2^31 (127 * 10^7 + 10^7); 12 chunks = 84 fraction   *)
(* bits are enough for 54 significant bits of any quotient >= 10^-7.       *)
(***************************************************************************)
Zeros(n) == [i \in 1..n |-> 0]

BitLen(n) == IF n = 0 THEN 0 ELSE CHOOSE L \in 1..31 : 2^(L-1) <= n /\ (L = 31 \/ n < 2^L)

\* binary digits of n, most significant first; <<>> for 0
Bits(n) == [i \in 1..BitLen(n) |-> (n \div 2^(BitLen(n) - i)) % 2]

ChunkToBits(v) == [i \in 1..7 |-> (v \div 2^(7 - i)) % 2]

BitAt(bs, j) == IF j < 1 \/ j > Len(bs) THEN 0 ELSE bs[j]

\* value of the 7 bits of bs that end at index hi
ChunkAt(bs, hi) ==
    64 * BitAt(bs, hi - 6) + 32 * BitAt(bs, hi - 5) + 16 * BitAt(bs, hi - 4)
    + 8 * BitAt(bs, hi - 3) + 4 * BitAt(bs, hi - 2) + 2 * BitAt(bs, hi - 1) + BitAt(bs, hi)

\* bs + 1; one bit longer when bs is all ones
Inc(bs) ==
    LET L == Len(bs)
        zs == {j \in 1..L : bs[j] = 0}
    IN IF zs = {} THEN <<1>> \o Zeros(L)
       ELSE LET j == CHOOSE k \in zs : \A k2 \in zs : k2 <= k
            IN [i \in 1..L |-> IF i < j THEN bs[i] ELSE IF i = j THEN 1 ELSE 0]

StripZeros(bs) ==
    LET ones == {j \in 1..Len(bs) : bs[j] = 1}
    IN IF ones = {} THEN <<>>
       ELSE SubSeq(bs, CHOOSE k \in ones : \A k2 \in ones : k <= k2, Len(bs))

FZero == [k |-> "zero", m |-> <<>>, e |-> 0]
FNaN == [k |-> "nan", m |-> <<>>, e |-> 0]

\* The float64 nearest to bs * 2^e (+ a little when sticky), ties to even.
\* bs has no leading zero.
RoundNearestEven(bs, e, sticky) ==
    LET L == Len(bs) IN
    IF L = 0 THEN FZero
    ELSE IF L <= MantBits
    THEN [k |-> "num", m |-> bs \o Zeros(MantBits - L), e |-> e - (MantBits - L)]
    ELSE LET keep == SubSeq(bs, 1, MantBits)
             rnd  == bs[MantBits + 1]
             st   == sticky \/ \E i \in (MantBits + 2)..L : bs[i] = 1
             up   == rnd = 1 /\ (st \/ keep[MantBits] = 1)
             r    == IF up THEN Inc(keep) ELSE keep
             e1   == e + (L - MantBits)
         IN IF Len(r) > MantBits
            THEN [k |-> "num", m |-> SubSeq(r, 1, MantBits), e |-> e1 + 1]
            ELSE [k |-> "num", m |-> r, e |-> e1]

\* the first n chunks of the binary expansion of r / d (r < d), and the
\* remainder left after them
RECURSIVE Frac(_, _, _)
Frac(r, d, n) ==
    IF n = 0 THEN [bits |-> <<>>, r |-> r]
    ELSE LET t == r * 128
             rest == Frac(t % d, d, n - 1)
         IN [bits |-> ChunkToBits(t \div d) \o rest.bits, r |-> rest.r]

\* the float64 holding the whole number x >= 0
FromInt(x) == RoundNearestEven(Bits(x), 0, FALSE)

\* float64 quotient of the whole numbers x >= 0 and d > 0
DivInt(x, d) ==
    LET f == Frac(x % d, d, 12)
    IN RoundNearestEven(StripZeros(Bits(x \div d) \o f.bits), 0 - 84, f.r # 0)

\* the exact product m * c, as bits; hi is the index of the last bit of m
\* not yet multiplied
RECURSIVE MulChunks(_, _, _, _)
MulChunks(m, hi, c, carry) ==
    IF hi < 1 THEN Bits(carry)
    ELSE LET t == ChunkAt(m, hi) * c + carry
         IN MulChunks(m, hi - 7, c, t \div 128) \o ChunkToBits(t % 128)

\* float64 product of the float64 f and the whole number c > 0
MulInt(f, c) ==
    IF f.k # "num" THEN f
    ELSE RoundNearestEven(StripZeros(MulChunks(f.m, Len(f.m), c, 0)), f.e, FALSE)

\* the exact sum of the bit strings a and b; ha, hb index the last bits not
\* yet added
RECURSIVE AddChunks(_, _, _, _, _)
AddChunks(a, ha, b, hb, carry) ==
    IF ha < 1 /\ hb < 1 THEN Bits(carry)
    ELSE LET t == ChunkAt(a, ha) + ChunkAt(b, hb) + carry
         IN AddChunks(a, ha - 7, b, hb - 7, t \div 128) \o ChunkToBits(t % 128)

\* float64 sum of two float64 values >= 0
AddF(x, y) ==
    IF x.k # "num" THEN y
    ELSE IF y.k # "num" THEN x
    ELSE LET e == IF x.e <= y.e THEN x.e ELSE y.e
             a == x.m \o Zeros(x.e - e)
             b == y.m \o Zeros(y.e - e)
         IN RoundNearestEven(StripZeros(AddChunks(a, Len(a), b, Len(b), 0)), e, FALSE)

\* the whole number a bit string of at most 28 bits stands for
IntVal(bs) ==
    ChunkAt(bs, Len(bs)) + 128 * ChunkAt(bs, Len(bs) - 7)
    + 16384 * ChunkAt(bs, Len(bs) - 14) + 2097152 * ChunkAt(bs, Len(bs) - 21)

\* rint of a float64 f with 0 <= f < 2^28: the nearest whole number, ties to
\* the even one
RintF(f) ==
    IF f.k # "num" \/ MantBits + f.e < 0 THEN 0
    ELSE IF f.e >= 0 THEN IntVal(f.m \o Zeros(f.e))
    ELSE LET ib == MantBits + f.e
             q == IntVal(SubSeq(f.m, 1, ib))
             st == \E i \in (ib + 2)..MantBits : f.m[i] = 1
         IN IF f.m[ib + 1] = 1 /\ (st \/ q % 2 = 1) THEN q + 1 ELSE q

BitsLess(a, b) ==
    \E i \in 1..Len(a) : a[i] < b[i] /\ \A j \in 1..(i - 1) : a[j] = b[j]

\* a <= b for float64 values >= 0; False when either is NaN
LeqF(a, b) ==
    /\ a.k # "nan"
    /\ b.k # "nan"
    /\ \/ a.k = "zero"
       \/ /\ a.k = "num"
          /\ b.k = "num"
          /\ \/ a.e < b.e
             \/ a.e = b.e /\ (a.m = b.m \/ BitsLess(a.m, b.m))

(***************************************************************************)
(* Table cells                                                             *)
(***************************************************************************)
Num(v) == [nan |-> FALSE, v |-> v]
NaN == [nan |-> TRUE, v |-> 0]

\* the float64 value of a cell holding a whole number >= 0
CellF(c) == IF c.nan THEN FNaN ELSE FromInt(c.v)

\* a slip in the divisor: lakh instead of crore
CroreLakh(c) == IF c.nan THEN FNaN ELSE DivInt(c.v, 100000)

\* series / 1e7
Crore(c) == IF c.nan THEN FNaN ELSE DivInt(c.v, CRORE)

(***************************************************************************)
(* Sidebar controls                                                        *)
(***************************************************************************)
None == "<None>"

PRESETS ==
    [k \in {"None", "Top Gainers", "Biggest Losers", "Large Cap", "Small Cap",
            "Highest Revenue"} |->
        CASE k = "None" -> None
          [] k = "Top Gainers" -> "gainers"
          [] k = "Biggest Losers" -> "losers"
          [] k = "Large Cap" -> "large_cap"
          [] k = "Small Cap" -> "small_cap"
          [] k = "Highest Revenue" -> "highest_revenue"]

\* Python truth value of an Optional[str]
Truthy(p) == p # None /\ p # ""

Settings(key, l, r, lo, hi, d) ==
    [key |-> key, preset |-> PRESETS[key], limit |-> l, min_roe |-> r,
     min_pe |-> lo, max_pe |-> hi, max_debt |-> d]

DefaultSettings(key) ==
    Settings(key, LimitDefault, MinRoeDefault, PeLowDefault, PeHighDefault, MaxDebtDefault)

\* What the user can have selected when Run is pressed: every preset with the
\* controls at their defaults, each control moved alone, and all moved at once.
SettingsSet ==
    {DefaultSettings(key) : key \in DOMAIN PRESETS}
    \cup { Settings("None", LimitMin, MinRoeDefault, PeLowDefault, PeHighDefault, MaxDebtDefault),
           Settings("None", LimitDefault, MinRoeMin, PeLowDefault, PeHighDefault, MaxDebtDefault),
           Settings("None", LimitDefault, MinRoeDefault, PeMin, PeMax, MaxDebtDefault),
           Settings("None", LimitDefault, MinRoeDefault, PeLowDefault, PeHighDefault, 2),
           Settings("Top Gainers", LimitMin, MinRoeMin, PeMin, PeMax, 2) }

(***************************************************************************)
(* Tables.  pd.DataFrame() has no columns at all; a query answer has its   *)
(* columns even when it has no rows.                                       *)
(***************************************************************************)
EmptyDF == [cols |-> FALSE, rows |-> <<>>]
Table(rows) == [cols |-> TRUE, rows |-> rows]

\* a test that only looks for missing columns
IsEmptyNoColumns(d) == ~d.cols

\* DataFrame.empty
IsEmpty(d) == ~d.cols \/ d.rows = <<>>

\* the subsequences of s with at most n elements
RECURSIVE SubSeqs(_, _)
SubSeqs(s, n) ==
    IF s = <<>> \/ n = 0 THEN {<<>>}
    ELSE SubSeqs(Tail(s), n) \cup {<<Head(s)>> \o t : t \in SubSeqs(Tail(s), n - 1)}

Min(a, b) == IF a <= b THEN a ELSE b

(***************************************************************************)
(* The screening service (an opaque collaborator): what it may answer      *)
(***************************************************************************)
BaseRow(n, roe, pe, cap) ==
    [name |-> n, return_on_equity |-> roe, price_earnings_ttm |-> pe,
     market_cap_basic |-> cap]

\* The listings of the market, in the service's order, as the base query
\* sees them (columns the page never reads are left out).  Two listings may
\* carry the same name.
BaseMarket ==
    << BaseRow("A", Num(20), Num(10), Num(50000021)),
       BaseRow("A", Num(5), Num(10), Num(50000021)),
       BaseRow("A", NaN, Num(10), NaN),
       BaseRow("A", Num(20), Num(0), Num(70000000)),
       BaseRow("B", Num(12), Num(20), Num(1230000000)),
       BaseRow("B", Num(20), Num(50), Num(1230000000)),
       BaseRow("B", Num(20), NaN, Num(90000000)) >>

FundRec(n, rev, oi, ta, tcl, debt, fcf) ==
    [name |-> n, total_revenue_ttm |-> rev, operating_income |-> oi,
     total_assets |-> ta, total_current_liabilities |-> tcl, total_debt |-> debt,
     free_cash_flow_ttm |-> fcf]

\* the same market as the enrichment query sees it
FundMarket ==
    << FundRec("A", Num(70000000), Num(30), Num(100), Num(40), Num(10000000), Num(5)),
      FundRec("A", Num(70000000), Num(10), Num(50), Num(50), Num(10000000), Num(5)),
      FundRec("A", Num(0), Num(0), Num(50), Num(50), Num(0), Num(8)),
      FundRec("A", Num(70000000), Num(30), Num(100), Num(40), NaN, Num(5)),
      FundRec("A", NaN, Num(30), Num(100), Num(40), Num(20000021), NaN),
      FundRec("B", Num(90000000), Num(20), Num(80), Num(30), Num(30000000), Num(9)),
      FundRec("B", Num(90000000), Num(0 - 10), Num(60), Num(60), Num(10000000), Num(5)) >>

(***************************************************************************)
(* Queries and the safe wrapper                                            *)
(***************************************************************************)
\* The answers get_scanner_data may give: an exception raised, or some of
\* the matching listings, in the service's order, at most limit of them.
ServiceAnswers(matching, limit) ==
    {[err |-> e, rows |-> <<>>] : e \in {"HTTPError", "Exception"}}
    \cup {[err |-> "none", rows |-> r] : r \in SubSeqs(matching, Min(limit, MaxRows))}

\* what safe_query hands back for an answer: the table it returns and the
\* exception that leaves it ("none": nothing propagates)
safe_query(ans) ==
    IF ans.err = "none" THEN [df |-> Table(ans.rows), raised |-> "none"]
    ELSE IF ans.err = "HTTPError" THEN [df |-> EmptyDF, raised |-> "none"]
    ELSE [df |-> EmptyDF, raised |-> "none"]

\* a fetch_base that sets the preset property whatever was selected
BaseQueryAlwaysPreset(preset, limit) ==
    [ev |-> "base_query", has_preset |-> TRUE, preset |-> preset,
     limit |-> limit, names |-> <<>>]

\* the query fetch_base builds
BaseQuery(preset, limit) ==
    [ev |-> "base_query", has_preset |-> Truthy(preset),
     preset |-> IF Truthy(preset) THEN preset ELSE None,
     limit |-> limit, names |-> <<>>]

\* the query enrich_fundamentals builds
EnrichQuery(nms) ==
    [ev |-> "enrich_query", has_preset |-> FALSE, preset |-> None,
     limit |-> Len(nms), names |-> nms]

\* entries of the log of network calls and sleeps: a query sent together with
\* how the service answered it ("none": a table came back), or a sleep
Sent(q, ans) == q @@ [err |-> ans.err]

SleepEvent ==
    [ev |-> "sleep", has_preset |-> FALSE, preset |-> None, limit |-> 0, names |-> <<>>,
     err |-> "none"]

(***************************************************************************)
(* Local filter, merge                                                     *)
(***************************************************************************)
\* a comparison that lets missing values through
GeCellNaNPasses(c, bound) == c.nan \/ c.v >= bound

\* series >= bound, element-wise: False for NaN
GeCell(c, bound) == ~c.nan /\ c.v >= bound

\* Series.between(lo, hi), both ends included: False for NaN
Between(c, lo, hi) == ~c.nan /\ lo <= c.v /\ c.v <= hi

LocalFilter(rows, s) ==
    SelectSeq(rows, LAMBDA r : /\ GeCell(r.return_on_equity, s.min_roe)
                               /\ Between(r.price_earnings_ttm, s.min_pe, s.max_pe))

NamesOf(rows) == [i \in 1..Len(rows) |-> rows[i].name]

NoFund(n) == FundRec(n, NaN, NaN, NaN, NaN, NaN, NaN)

\* the rows a left row contributes to a left merge on name
MergeRow(l, right) ==
    LET hits == SelectSeq(right, LAMBDA r : r.name = l.name)
    IN IF hits = <<>> THEN <<l @@ NoFund(l.name)>>
       ELSE [i \in 1..Len(hits) |-> l @@ hits[i]]

RECURSIVE MergeRows(_, _)
MergeRows(left, right) ==
    IF left = <<>> THEN <<>>
    ELSE MergeRow(Head(left), right) \o MergeRows(Tail(left), right)

\* base_df.merge(fund_df, on="name", how="left"): KeyError when fund_df has
\* no name column
Merge(left, right) ==
    IF ~right.cols THEN [raised |-> "KeyError", df |-> EmptyDF]
    ELSE [raised |-> "none", df |-> Table(MergeRows(left.rows, right.rows))]

(***************************************************************************)
(* Derived metrics                                                         *)
(***************************************************************************)
\* A ranked value: NaN, -inf, +inf or the fraction n / d with d > 0.
VNaN == [k |-> "nan", n |-> 0, d |-> 1]
VInf == [k |-> "inf", n |-> 0, d |-> 1]
VNegInf == [k |-> "ninf", n |-> 0, d |-> 1]
VNum(n, d) == IF d < 0 THEN [k |-> "num", n |-> 0 - n, d |-> 0 - d]
              ELSE [k |-> "num", n |-> n, d |-> d]

\* a guarded division that answers 0 for a zero denominator
VDivGuarded(n, d) == IF d # 0 THEN VNum(n, d) ELSE VNum(0, 1)

\* float division n / d of two whole numbers, d possibly 0
VDiv(n, d) ==
    IF d # 0 THEN VNum(n, d)
    ELSE IF n = 0 THEN VNaN
    ELSE IF n > 0 THEN VInf
    ELSE VNegInf

\* operating_income / (total_assets - total_current_liabilities) * 100
ROCE(oi, ta, tcl) ==
    IF oi.nan \/ ta.nan \/ tcl.nan THEN VNaN
    ELSE LET q == VDiv(oi.v, ta.v - tcl.v)
         IN IF q.k = "num" THEN VNum(q.n * Percent, q.d) ELSE q

Derive(r) ==
    r @@ [ROCE |-> ROCE(r.operating_income, r.total_assets, r.total_current_liabilities),
          Market_Cap_Cr |-> Crore(r.market_cap_basic),
          Revenue_Cr |-> Crore(r.total_revenue_ttm),
          Debt_Cr |-> Crore(r.total_debt)]

DeriveRows(rows) == [i \in 1..Len(rows) |-> Derive(rows[i])]

\* df[df["Debt (Cr)"] <= max_debt]
DebtFilter(rows, max_debt) ==
    SelectSeq(rows, LAMBDA r : LeqF(r.Debt_Cr, FromInt(max_debt)))

(***************************************************************************)
(* Fundamental Score                                                       *)
(***************************************************************************)
VLess(a, b) ==
    CASE a.k = "ninf" -> b.k # "ninf"
      [] a.k = "inf" -> FALSE
      [] a.k = "num" -> b.k = "inf" \/ (b.k = "num" /\ a.n * b.d < b.n * a.d)

VEq(a, b) == a.k = b.k /\ (a.k = "num" => a.n * b.d = b.n * a.d)

RNaN == [nan |-> TRUE, n |-> 0, d |-> 1]

\* Series.rank(pct=True) at position i: the average rank among the values
\* that are not NaN, divided by their number; NaN stays NaN.  The rank is
\* the fraction n / d.
Rank(col, i) ==
    IF col[i].k = "nan" THEN RNaN
    ELSE LET valid == {j \in 1..Len(col) : col[j].k # "nan"}
             less == Cardinality({j \in valid : VLess(col[j], col[i])})
             same == Cardinality({j \in valid : VEq(col[j], col[i])})
         IN [nan |-> FALSE, n |-> 2 * less + same + 1, d |-> 2 * Cardinality(valid)]

CellV(c) == IF c.nan THEN VNaN ELSE VNum(c.v, 1)

\* 1 / price_earnings_ttm
InvPE(pe) == IF pe.nan THEN VNaN ELSE VDiv(1, pe.v)

Pow10(k) == 10 ^ k

\* the float64 the rank n / d is held in: the average rank n / 2 (exact)
\* divided by the count d / 2
RankF(r) == DivInt(r.n, r.d)

\* the weights of ROE and free cash flow swapped
WeightedSumSwapped(r1, r2, r3, r4) ==
    AddF(AddF(AddF(MulInt(RankF(r1), WeightFCF), MulInt(RankF(r2), WeightROCE)),
              MulInt(RankF(r3), WeightPE)),
         MulInt(RankF(r4), WeightROE))

\* the weighted sum of four ranks, in float64, added left to right
WeightedSum(r1, r2, r3, r4) ==
    AddF(AddF(AddF(MulInt(RankF(r1), WeightROE), MulInt(RankF(r2), WeightROCE)),
              MulInt(RankF(r3), WeightPE)),
         MulInt(RankF(r4), WeightFCF))

\* Series.round(decimals) is rint(x * 10^decimals) / 10^decimals: the whole
\* number rint gives
RoundScaled(f, decimals) == RintF(MulInt(f, Pow10(decimals)))

\* (...).round(1).  The score cell holds x10, the whole number of tenths: the
\* score is x10 / 10.  NaN when a rank is NaN.
Score(r1, r2, r3, r4) ==
    IF r1.nan \/ r2.nan \/ r3.nan \/ r4.nan THEN [nan |-> TRUE, x10 |-> 0]
    ELSE [nan |-> FALSE, x10 |-> RoundScaled(WeightedSum(r1, r2, r3, r4), ScoreDecimals)]

RanksOf(rows, i) ==
    [roe |-> Rank([j \in 1..Len(rows) |-> CellV(rows[j].return_on_equity)], i),
     roce |-> Rank([j \in 1..Len(rows) |-> rows[j].ROCE], i),
     pe |-> Rank([j \in 1..Len(rows) |-> InvPE(rows[j].price_earnings_ttm)], i),
     fcf |-> Rank([j \in 1..Len(rows) |-> CellV(rows[j].free_cash_flow_ttm)], i)]

ScoreRows(rows) ==
    [i \in 1..Len(rows) |->
        LET rk == RanksOf(rows, i)
        IN rows[i] @@ [Fundamental_Score |-> Score(rk.roe, rk.roce, rk.pe, rk.fcf)]]

(***************************************************************************)
(* The page                                                                *)
(***************************************************************************)
VARIABLES
    pc,          \* where the script is: "idle", "fetch", "sleep", "check", "merge",
                 \* "stopped", "done", "crashed"; "derive", "derived" when the
                 \* derived columns are computed on a table given at the start
    settings,    \* the sidebar values of this run
    fetched,     \* the table fetch_base returned
    base_df,     \* base_df: as fetched, then locally filtered
    names,       \* names
    fund_df,     \* fund_df
    merged,      \* df as the left merge leaves it
    derived,     \* df with the derived columns, before the debt filter
    df,          \* df after the debt filter, with the score
    calls,       \* the network calls and sleeps of this run, in order
    display,     \* "none", "error" (st.error shown), "table" (results rendered)
    exception    \* the exception that ended the run, "none" if none

vars == <<pc, settings, fetched, base_df, names, fund_df, merged, derived, df, calls,
          display, exception>>

Init ==
    /\ pc = "idle"
    /\ settings = DefaultSettings("None")
    /\ fetched = EmptyDF
    /\ base_df = EmptyDF
    /\ names = <<>>
    /\ fund_df = EmptyDF
    /\ merged = EmptyDF
    /\ derived = EmptyDF
    /\ df = EmptyDF
    /\ calls = <<>>
    /\ display = "none"
    /\ exception = "none"

\* the user presses Run: the script reruns from the top with run = True
Run(s) ==
    /\ pc \in {"idle", "stopped", "done", "crashed"}
    /\ pc' = "fetch"
    /\ settings' = s
    /\ fetched' = EmptyDF
    /\ base_df' = EmptyDF
    /\ names' = <<>>
    /\ fund_df' = EmptyDF
    /\ merged' = EmptyDF
    /\ derived' = EmptyDF
    /\ df' = EmptyDF
    /\ calls' = <<>>
    /\ display' = "none"
    /\ exception' = "none"

\* base_df = fetch_base(preset, limit)
FetchBase(ans) ==
    /\ pc = "fetch"
    /\ LET got == safe_query(ans)
       IN /\ calls' = Append(calls, Sent(BaseQuery(settings.preset, settings.limit), ans))
          /\ IF got.raised = "none"
             THEN /\ pc' = "sleep"
                  /\ fetched' = got.df
                  /\ base_df' = got.df
                  /\ exception' = exception
             ELSE /\ pc' = "crashed"
                  /\ exception' = got.raised
                  /\ UNCHANGED <<fetched, base_df>>
    /\ UNCHANGED <<settings, names, fund_df, merged, derived, df, display>>

\* time.sleep(1)
Sleep ==
    /\ pc = "sleep"
    /\ pc' = "check"
    /\ calls' = Append(calls, SleepEvent)
    /\ UNCHANGED <<settings, fetched, base_df, names, fund_df, merged, derived, df, display,
                   exception>>

\* if base_df.empty: st.error(...); st.stop()
StopEmpty ==
    /\ pc = "check"
    /\ IsEmpty(base_df)
    /\ pc' = "stopped"
    /\ display' = "error"
    /\ UNCHANGED <<settings, fetched, base_df, names, fund_df, merged, derived, df, calls,
                   exception>>

\* the local filter, names, fund_df = enrich_fundamentals(names)
Enrich(ans) ==
    /\ pc = "check"
    /\ ~IsEmpty(base_df)
    /\ LET kept == LocalFilter(base_df.rows, settings)
           nms == NamesOf(kept)
           got == safe_query(ans)
       IN /\ base_df' = Table(kept)
          /\ names' = nms
          /\ calls' = Append(calls, Sent(EnrichQuery(nms), ans))
          /\ IF got.raised = "none"
             THEN /\ pc' = "merge"
                  /\ fund_df' = got.df
                  /\ exception' = exception
             ELSE /\ pc' = "crashed"
                  /\ exception' = got.raised
                  /\ fund_df' = fund_df
    /\ UNCHANGED <<settings, fetched, merged, derived, df, display>>

\* the merge, the derived columns, the debt filter, the score, the rendering
Finish ==
    /\ pc = "merge"
    /\ LET m == Merge(base_df, fund_df)
       IN IF m.raised # "none"
          THEN /\ pc' = "crashed"
               /\ exception' = m.raised
               /\ UNCHANGED <<merged, derived, df, display>>
          ELSE LET cols == DeriveRows(m.df.rows)
               IN /\ merged' = m.df
                  /\ derived' = Table(cols)
                  /\ df' = Table(ScoreRows(DebtFilter(cols, settings.max_debt)))
                  /\ display' = "table"
                  /\ pc' = "done"
                  /\ exception' = exception
    /\ UNCHANGED <<settings, fetched, base_df, names, fund_df, calls>>

\* what the service may answer to the query q
Answers(q) ==
    IF q.ev = "base_query" THEN ServiceAnswers(BaseMarket, q.limit)
    ELSE ServiceAnswers(SelectSeq(FundMarket,
                                  LAMBDA r : \E i \in 1..Len(q.names) : q.names[i] = r.name),
                        q.limit)

Next ==
    \/ \E s \in SettingsSet : Run(s)
    \/ \E ans \in Answers(BaseQuery(settings.preset, settings.limit)) : FetchBase(ans)
    \/ Sleep
    \/ StopEmpty
    \/ \E ans \in Answers(EnrichQuery(NamesOf(LocalFilter(base_df.rows, settings)))) : Enrich(ans)
    \/ Finish

Spec == Init /\ [][Next]_vars

(***************************************************************************)
(* The derived columns taken alone: one merged row whose currency fields   *)
(* range over rupee amounts                                                *)
(***************************************************************************)
RupeeCells ==
    {NaN} \cup {Num(x) : x \in 0..MaxRupees}
    \cup {Num(CRORE * i + j) : i \in 1..MaxCrores, j \in 0..MaxOffset}

MergedRow(cap, rev, debt) ==
    BaseRow("A", Num(20), Num(10), cap)
    @@ FundRec("A", rev, Num(30), Num(100), Num(40), debt, Num(5))

InitDerive ==
    /\ pc = "derive"
    /\ settings = DefaultSettings("None")
    /\ fetched = EmptyDF
    /\ base_df = EmptyDF
    /\ names = <<>>
    /\ fund_df = EmptyDF
    /\ \E x \in RupeeCells :
          merged \in { Table(<<MergedRow(x, NaN, Num(0))>>),
                       Table(<<MergedRow(Num(0), x, NaN)>>),
                       Table(<<MergedRow(NaN, Num(0), x)>>) }
    /\ derived = EmptyDF
    /\ df = EmptyDF
    /\ calls = <<>>
    /\ display = "none"
    /\ exception = "none"

\* lines 141-148 applied to the table
DeriveStep ==
    /\ pc = "derive"
    /\ pc' = "derived"
    /\ derived' = Table(DeriveRows(merged.rows))
    /\ UNCHANGED <<settings, fetched, base_df, names, fund_df, merged, df, calls, display,
                   exception>>

NextDerive == DeriveStep

SpecDerive == InitDerive /\ [][NextDerive]_vars

(***************************************************************************)
(* Properties                                                              *)
(***************************************************************************)
Finished == pc \in {"stopped", "done", "crashed"}

EnrichSent == \E i \in 1..Len(calls) : calls[i].ev = "enrich_query"

\* C1: when the run has ended and an upstream query came back empty (the
\* base query, or the enrichment query, an error replaced by an empty table
\* included), the page shows the error message and no table, and no
\* exception ended the run.
C1_EmptyUpstreamIsFlagged ==
    (Finished /\ (fetched.rows = <<>> \/ (EnrichSent /\ fund_df.rows = <<>>)))
        => (exception = "none" /\ display = "error")

\* C4: an error raised by the service never leaves safe_query, and a run in
\* which the service raised one ends with the message shown.
C4_ServiceErrorIsReported ==
    /\ exception \notin {"HTTPError", "Exception"}
    /\ (Finished /\ \E i \in 1..Len(calls) : calls[i].err # "none")
            => (exception = "none" /\ display = "error")

\* C5: the log of a run is a prefix of <<base query, sleep, enrichment
\* query>>: at most two queries, the enrichment one only after the base one
\* and the sleep, never when the base result has no rows, none sent twice.
C5_CallsInSequence ==
    /\ Len(calls) <= 3
    /\ \A i \in 1..Len(calls) : calls[i].ev = <<"base_query", "sleep", "enrich_query">>[i]
    /\ EnrichSent => fetched.rows # <<>>

C5_Witness ==
    /\ pc = "done"
    /\ Len(calls) = 3
    /\ calls[3].ev = "enrich_query"

\* C8: the base query carries the preset exactly when the user selected one
\* other than "None" (and then the selected one); the enrichment query never
\* carries a preset.
C8_PresetOnlyOnBaseQuery ==
    \A i \in 1..Len(calls) :
        /\ calls[i].ev = "base_query" =>
              /\ calls[i].has_preset <=> settings.key # "None"
              /\ calls[i].has_preset => calls[i].preset = PRESETS[settings.key]
        /\ calls[i].ev = "enrich_query" => ~calls[i].has_preset

C8_Witness ==
    /\ pc = "done"
    /\ settings.key = "Large Cap"
    /\ calls[1].has_preset
    /\ calls[1].preset = "large_cap"
    /\ ~calls[3].has_preset

Rows(t) == 1..Len(t.rows)

\* the base columns of a row
BaseOf(r) == BaseRow(r.name, r.return_on_equity, r.price_earnings_ttm, r.market_cap_basic)

\* x / 10^7 <= bound, in exact arithmetic
CroreAtMost(x, bound) ==
    x \div CRORE < bound \/ (x \div CRORE = bound /\ x % CRORE = 0)

\* C9: every row of the final table comes from the base query's answer, has
\* ROE, P/E and total debt present, ROE >= min_roe, min_pe <= P/E <= max_pe and
\* debt in crore <= max_debt.
C9_ResultRowsPassAllFilters ==
    pc = "done" =>
        \A i \in Rows(df) :
            LET r == df.rows[i] IN
            /\ \E j \in Rows(fetched) : fetched.rows[j] = BaseOf(r)
            /\ ~r.return_on_equity.nan
            /\ r.return_on_equity.v >= settings.min_roe
            /\ ~r.price_earnings_ttm.nan
            /\ settings.min_pe <= r.price_earnings_ttm.v
            /\ r.price_earnings_ttm.v <= settings.max_pe
            /\ ~r.total_debt.nan
            /\ CroreAtMost(r.total_debt.v, settings.max_debt)

\* a final table that kept a stock under a binding debt limit while the
\* local filter left another out
C9_Witness ==
    /\ pc = "done"
    /\ df.rows # <<>>
    /\ Len(base_df.rows) < Len(fetched.rows)
    /\ settings.max_debt = 2

\* C10: the enrichment query asks for the names of the filtered base rows,
\* with limit = their number, and the merged table has exactly as many rows
\* as the filtered base table.
C10_OneMergedRowPerBaseRow ==
    /\ \A i \in 1..Len(calls) :
          calls[i].ev = "enrich_query" =>
              /\ calls[i].names = [k \in Rows(base_df) |-> base_df.rows[k].name]
              /\ calls[i].limit = Len(base_df.rows)
    /\ pc = "done" => Len(merged.rows) = Len(base_df.rows)

\* C7: ROCE is operating_income / (total_assets - total_current_liabilities)
\* * 100 on every merged row (missing when an input is missing); with zero
\* capital employed the run is not ended by an error and ROCE is +inf, -inf
\* or NaN.
C7_RoceFormula ==
    /\ pc = "crashed" => (exception = "KeyError" /\ ~fund_df.cols)
    /\ \A i \in Rows(derived) :
          LET r == derived.rows[i]
              oi == r.operating_income
              ta == r.total_assets
              tcl == r.total_current_liabilities
          IN IF oi.nan \/ ta.nan \/ tcl.nan THEN r.ROCE.k = "nan"
             ELSE IF ta.v = tcl.v THEN r.ROCE.k \in {"nan", "inf", "ninf"}
             ELSE /\ r.ROCE.k = "num"
                  /\ r.ROCE.n * (ta.v - tcl.v) = oi.v * 100 * r.ROCE.d

\* a finished run whose merged table holds a row with zero capital employed
\* and a row with capital employed
C7_Witness ==
    /\ pc = "done"
    /\ \E i \in Rows(derived) :
          LET r == derived.rows[i] IN
          /\ ~r.total_assets.nan
          /\ r.total_assets = r.total_current_liabilities
          /\ r.ROCE.k = "inf"
    /\ \E i \in Rows(derived) : derived.rows[i].ROCE.k = "num"

\* the four ranked inputs of the rows of a table
Inputs(t) ==
    [roe |-> [j \in Rows(t) |-> CellV(t.rows[j].return_on_equity)],
     roce |-> [j \in Rows(t) |-> t.rows[j].ROCE],
     pe |-> [j \in Rows(t) |-> InvPE(t.rows[j].price_earnings_ttm)],
     fcf |-> [j \in Rows(t) |-> CellV(t.rows[j].free_cash_flow_ttm)]]

InputNames == {"roe", "roce", "pe", "fcf"}

Ranked(col, i) == col[i].k # "nan"

\* twice the average rank of col[i] among the values present, and twice
\* their number: the percentile rank is their quotient
PctRank(col, i) ==
    LET present == {j \in 1..Len(col) : col[j].k # "nan"}
    IN [n |-> Cardinality({j \in present : VLess(col[j], col[i])})
              + Cardinality({j \in present : ~VLess(col[i], col[j])}) + 1,
        d |-> 2 * Cardinality(present)]

AllRanked(t, i) == \A c \in InputNames : Ranked(Inputs(t)[c], i)

\* 10 * (30 r1 + 30 r2 + 20 r3 + 20 r4) as the exact fraction n / d
TenfoldSum(t, i) ==
    LET r1 == PctRank(Inputs(t).roe, i)
        r2 == PctRank(Inputs(t).roce, i)
        r3 == PctRank(Inputs(t).pe, i)
        r4 == PctRank(Inputs(t).fcf, i)
    IN [n |-> 10 * (30 * r1.n * r2.d * r3.d * r4.d + 30 * r2.n * r1.d * r3.d * r4.d
                    + 20 * r3.n * r1.d * r2.d * r4.d + 20 * r4.n * r1.d * r2.d * r3.d),
        d |-> r1.d * r2.d * r3.d * r4.d]

\* rows i and j have all four ranks, equal ranks in the inputs other than c,
\* and i ranks at least as high as j in c
DominatesIn(t, i, j, c) ==
    /\ AllRanked(t, i)
    /\ AllRanked(t, j)
    /\ \A o \in InputNames \ {c} : PctRank(Inputs(t)[o], i) = PctRank(Inputs(t)[o], j)
    /\ PctRank(Inputs(t)[c], i).n >= PctRank(Inputs(t)[c], j).n

ScoreMonotone(t) ==
    \A i \in Rows(t), j \in Rows(t), c \in InputNames :
        DominatesIn(t, i, j, c) =>
            /\ ~t.rows[i].Fundamental_Score.nan
            /\ ~t.rows[j].Fundamental_Score.nan
            /\ t.rows[i].Fundamental_Score.x10 >= t.rows[j].Fundamental_Score.x10

\* C2 as stated: the score of a row is exactly 30 r(ROE) + 30 r(ROCE) +
\* 20 r(1/PE) + 20 r(FCF), and it does not decrease in any one rank.
C2_ScoreIsWeightedSum ==
    pc = "done" =>
        /\ \A i \in Rows(df) :
              AllRanked(df, i) =>
                  /\ ~df.rows[i].Fundamental_Score.nan
                  /\ df.rows[i].Fundamental_Score.x10 * TenfoldSum(df, i).d
                        = TenfoldSum(df, i).n
        /\ ScoreMonotone(df)

\* C2 amended: the score of a row is that weighted sum rounded to one decimal
\* place (within 0.05 of it and a whole number of tenths), and it does not
\* decrease in any one rank.
C2_ScoreIsRoundedWeightedSum ==
    pc = "done" =>
        /\ \A i \in Rows(df) :
              AllRanked(df, i) =>
                  LET w == TenfoldSum(df, i)
                      x == df.rows[i].Fundamental_Score
                  IN /\ ~x.nan
                     /\ 2 * (x.x10 * w.d - w.n) <= w.d
                     /\ 2 * (w.n - x.x10 * w.d) <= w.d
        /\ ScoreMonotone(df)

\* two rows with equal ranks in three inputs and different ranks in the
\* fourth, and a row whose weighted sum is not a whole number of tenths
C2_Witness ==
    /\ pc = "done"
    /\ \E i \in Rows(df), j \in Rows(df), c \in InputNames :
          /\ DominatesIn(df, i, j, c)
          /\ PctRank(Inputs(df)[c], i).n > PctRank(Inputs(df)[c], j).n
          /\ df.rows[i].Fundamental_Score.x10 > df.rows[j].Fundamental_Score.x10
    /\ \E i \in Rows(df) :
          /\ AllRanked(df, i)
          /\ TenfoldSum(df, i).n % TenfoldSum(df, i).d # 0

\* C3: every row of the final table has a score that is present and lies
\* between 0 and 100.
C3_ScoreInRange ==
    pc = "done" =>
        \A i \in Rows(df) :
            /\ ~df.rows[i].Fundamental_Score.nan
            /\ 0 <= df.rows[i].Fundamental_Score.x10
            /\ df.rows[i].Fundamental_Score.x10 <= 1000

\* value * 1e7, in float64
Uncrore(f) == MulInt(f, CRORE)

\* bs - 1, for bs > 0
Dec(bs) ==
    LET L == Len(bs)
        os == {j \in 1..L : bs[j] = 1}
        j == CHOOSE k \in os : \A k2 \in os : k2 <= k
    IN [i \in 1..L |-> IF i < j THEN bs[i] ELSE IF i = j THEN 0 ELSE 1]

\* the float64 next above / next below f > 0
NextUp(f) ==
    LET r == Inc(f.m)
    IN IF Len(r) > MantBits THEN [k |-> "num", m |-> SubSeq(r, 1, MantBits), e |-> f.e + 1]
       ELSE [k |-> "num", m |-> r, e |-> f.e]

NextDown(f) ==
    IF f.m = <<1>> \o Zeros(MantBits - 1)
    THEN [k |-> "num", m |-> [i \in 1..MantBits |-> 1], e |-> f.e - 1]
    ELSE [k |-> "num", m |-> Dec(f.m), e |-> f.e]

CurrencyColumnsKept(i) ==
    /\ derived.rows[i].market_cap_basic = merged.rows[i].market_cap_basic
    /\ derived.rows[i].total_revenue_ttm = merged.rows[i].total_revenue_ttm
    /\ derived.rows[i].total_debt = merged.rows[i].total_debt

\* multiplying back gives the float64 the cell held
GivesBack(scaled, cell) == Uncrore(scaled) = CellF(cell)

\* multiplying back gives the float64 the cell held or one of its two
\* neighbours; a missing value stays missing and zero stays zero
GivesBackToOneUlp(scaled, cell) ==
    IF cell.nan \/ cell.v = 0 THEN Uncrore(scaled) = CellF(cell)
    ELSE Uncrore(scaled) \in {CellF(cell), NextUp(CellF(cell)), NextDown(CellF(cell))}

\* C6 as stated: the crore conversion leaves the source columns as they were
\* and scaled * 10^7 is the original value, for every value.
C6_ScalingIsReversible ==
    pc = "derived" =>
        /\ Len(derived.rows) = Len(merged.rows)
        /\ \A i \in Rows(derived) :
              LET r == derived.rows[i] IN
              /\ CurrencyColumnsKept(i)
              /\ GivesBack(r.Market_Cap_Cr, r.market_cap_basic)
              /\ GivesBack(r.Revenue_Cr, r.total_revenue_ttm)
              /\ GivesBack(r.Debt_Cr, r.total_debt)

\* C6 amended: the crore conversion leaves the source columns as they were
\* and scaled * 10^7 is within one unit in the last place of the original.
C6_ScalingReversibleToOneUlp ==
    pc = "derived" =>
        /\ Len(derived.rows) = Len(merged.rows)
        /\ \A i \in Rows(derived) :
              LET r == derived.rows[i] IN
              /\ CurrencyColumnsKept(i)
              /\ GivesBackToOneUlp(r.Market_Cap_Cr, r.market_cap_basic)
              /\ GivesBackToOneUlp(r.Revenue_Cr, r.total_revenue_ttm)
              /\ GivesBackToOneUlp(r.Debt_Cr, r.total_debt)

\* a converted table with a debt that comes back exactly and one with a debt
\* that comes back one unit in the last place off
C6_Witness ==
    /\ pc = "derived"
    /\ \E i \in Rows(derived) :
          LET r == derived.rows[i] IN
          /\ ~r.total_debt.nan
          /\ r.total_debt.v > 0
          /\ ~GivesBack(r.Debt_Cr, r.total_debt)
          /\ GivesBackToOneUlp(r.Debt_Cr, r.total_debt)

====
